---- MODULE Spec2Model ----
(***************************************************************************)
(* Inbound-message dispatch core of nonebot (message.py): handle_message   *)
(* and its helpers _check_at_me and _check_calling_me_nickname, the        *)
(* preprocessor hook set, the asyncio.gather fan-out, the command-dispatch *)
(* retry loop and the natural-language fallback.                           *)
(*                                                                         *)
(* A text payload is a sequence of one-character strings; a segment is a   *)
(* record [type, data] (aiocqhttp's MessageSegment: a dict with the keys   *)
(* type and data, compared structurally).  The payload of an "at" segment  *)
(* is the mentioned id as a one-element sequence.                          *)
(*                                                                         *)
(* The plugin registry (plugin.py): load_plugins over a directory listing, *)
(* the load_plugin calls it makes, and get_cmd_nlp_subplugins.             *)
(***************************************************************************)
EXTENDS Integers, Sequences, FiniteSets, TLC

\* ------------------------------------------------------------------ bounds
\* longest input message (in segments) of the normalization specification
MaxLen == 3
\* longest input message (in segments) of the full pipeline specification
PipeMaxLen == 1
\* the invocation counters of the dispatchers stop counting at MaxCalls
MaxCalls == 4

\* ---------------------------------------------------------------- segments
SelfId == "10"
OtherId == "20"

Text(t) == [type |-> "text", data |-> t]

\* MessageSegment.at(user_id)
At(id) == [type |-> "at", data |-> <<id>>]

EmptyText == Text(<<>>)
BlankText == Text(<<" ", " ">>)
HiText == Text(<<"h", "i">>)
CallText == Text(<<"B", "O", "T", ",", " ", "h", "i">>)

\* the segments input messages are built from
SegPool == {At(SelfId), At(OtherId), BlankText, HiText, CallText}

RECURSIVE SeqsUpTo(_, _)
SeqsUpTo(S, n) ==
    IF n = 0 THEN {<<>>}
    ELSE LET shorter == SeqsUpTo(S, n - 1)
         IN  shorter \cup {Append(m, s) : m \in {q \in shorter : Len(q) = n - 1}, s \in S}

MessageTypes == {"private", "group", "discuss"}

\* bot.config.NICKNAME: one string (isStr) or a collection of strings
Nick(isStr, names) == [isStr |-> isStr, names |-> names]
NicknameConfigs ==
    { Nick(TRUE, << <<>> >>),
      Nick(TRUE, << <<"B", "o", "t">> >>),
      Nick(FALSE, << <<>> >>),
      Nick(FALSE, << <<>>, <<"h">>, <<"b", "o", "t">> >>),
      Nick(FALSE, << <<"h", "i">> >>) }

\* ------------------------------------------------------------ text helpers
\* str.strip() and the regex class \s, on the characters of the model
IsSpace(c) == c \in {" "}

\* the regex class [\s,<fullwidth comma>]; "fwcomma" stands for U+FF0C
IsSeparator(c) == IsSpace(c) \/ c \in {",", "fwcomma"}

\* re.IGNORECASE, on the characters of the model
Lower(c) ==
    CASE c = "B" -> "b"
      [] c = "O" -> "o"
      [] c = "T" -> "t"
      [] c = "H" -> "h"
      [] OTHER -> c

\* not text.strip()
IsBlank(t) == \A k \in 1..Len(t) : IsSpace(t[k])

Drop(s, n) == SubSeq(s, n + 1, Len(s))

\* filter(lambda n: n, NICKNAME)
RECURSIVE FilterNonEmpty(_)
FilterNonEmpty(names) ==
    IF names = <<>> THEN <<>>
    ELSE IF Head(names) = <<>> THEN FilterNonEmpty(Tail(names))
         ELSE <<Head(names)>> \o FilterNonEmpty(Tail(names))

\* the alternatives of nickname_regex
Nicknames(cfg) == IF cfg.isStr THEN cfg.names ELSE FilterNonEmpty(cfg.names)

\* bool(bot.config.NICKNAME)
NicknameTruthy(cfg) == IF cfg.isStr THEN cfg.names[1] # <<>> ELSE cfg.names # <<>>

\* the literal n matches at the start of t, ignoring case
IsPrefixNoCase(n, t) ==
    /\ Len(n) <= Len(t)
    /\ \A k \in 1..Len(n) : Lower(n[k]) = Lower(t[k])

\* length of group 1 of ^(n1|n2|...): the first alternative that matches,
\* the empty pattern when there is no alternative, -1 when none matches
RECURSIVE NicknameMatchLen(_, _)
NicknameMatchLen(ns, t) ==
    IF ns = <<>> THEN -1
    ELSE IF IsPrefixNoCase(Head(ns), t) THEN Len(Head(ns))
         ELSE NicknameMatchLen(Tail(ns), t)

\* length of the longest run of separators at the start of t: [\s,...]*
RECURSIVE SeparatorRun(_)
SeparatorRun(t) ==
    IF t # <<>> /\ IsSeparator(Head(t)) THEN 1 + SeparatorRun(Tail(t)) ELSE 0

\* the regex without its second group
RegexEndNoSeparators(cfg, t) ==
    LET ns == Nicknames(cfg)
    IN  IF ns = <<>> THEN 0 ELSE NicknameMatchLen(ns, t)

\* m.end() of re.search(rf'^({nickname_regex})([\s,...]*|$)', t), -1 for None
RegexEnd(cfg, t) ==
    LET ns == Nicknames(cfg)
        g1 == IF ns = <<>> THEN 0 ELSE NicknameMatchLen(ns, t)
    IN  IF g1 < 0 THEN -1 ELSE g1 + SeparatorRun(Drop(t, g1))

\* ------------------------------------------------------------------- state
VARIABLES
    preprocessors,   \* _message_preprocessors
    pc,              \* position of the one handle_message run
    message,         \* ctx['message']
    to_me,           \* ctx['to_me'], meaningful when to_me_defined
    to_me_defined,   \* 'to_me' in ctx
    message_type,    \* ctx['message_type']
    nickname,        \* bot.config.NICKNAME
    raw_to_me,       \* the local raw_to_me
    in_message,      \* ctx['message'] as handle_message received it
    in_to_me,        \* ctx.get('to_me', False) as handle_message received it
    at_message,      \* ctx['message'] as _check_at_me received it
    hook,            \* per coroutine of coros: running, or how it ended
    gather_exc,      \* the exception asyncio.gather propagates, if any
    plugin_filtered, \* the local plugin_filtered
    handled,         \* the local handled
    cmd_returned,    \* what handle_command returned: "none" before it has
    cmd_calls,       \* invocations of handle_command (stops at MaxCalls)
    switches,        \* SwitchExceptions caught (stops at MaxCalls)
    new_ctx_message, \* e.new_ctx_message of the last SwitchException
    nl_calls,        \* invocations of handle_natural_language
    outcome,         \* of handle_message: "running", "returned", "raised"
    raised_by,       \* whose exception left handle_message: "none" for none
    modules,         \* what importlib.import_module finds, per module name
    listing,         \* os.listdir(plugin_dir)
    entry,           \* index in listing of the entry the for loop takes next
    plugins,         \* _plugins
    count,           \* the local count of load_plugins
    load_pc,         \* position of load_plugins and of the load_plugin it runs
    module_name,     \* the argument of the running load_plugin
    found,           \* what get_cmd_nlp_subplugins returned to load_plugin
    plugins_before,  \* _plugins when the running load_plugin was called
    loaded,          \* what the last load_plugin returned: "none" before
    attempts,        \* calls of load_plugin made by load_plugins
    successes        \* calls of load_plugin that returned True

vars == <<preprocessors, pc, message, to_me, to_me_defined, message_type,
          nickname, raw_to_me, in_message, in_to_me, at_message,
          hook, gather_exc, plugin_filtered, handled, cmd_returned,
          cmd_calls, switches, new_ctx_message, nl_calls, outcome, raised_by,
          modules, listing, entry, plugins, count, load_pc, module_name, found,
          plugins_before, loaded, attempts, successes>>

ctxVars == <<message, to_me, to_me_defined>>
regVars == <<modules, listing, entry, plugins, count, load_pc, module_name, found,
             plugins_before, loaded, attempts, successes>>
envVars == <<preprocessors, message_type, nickname, in_message, in_to_me, regVars>>
fanVars == <<hook, gather_exc, plugin_filtered>>
cmdVars == <<handled, cmd_returned, cmd_calls, switches, new_ctx_message>>
pipeVars == <<fanVars, cmdVars, nl_calls, outcome, raised_by>>

at_me_seg == At(SelfId)

\* the triple get_cmd_nlp_subplugins returns, or the fact that it raised
Harvest(raised, commands, nlprocessors, subplugins) ==
    [raised |-> raised, commands |-> commands,
     nlprocessors |-> nlprocessors, subplugins |-> subplugins]

NoHarvest == Harvest(FALSE, {}, {}, {})

\* plugin.py at rest: nothing to import, nothing loaded, no load under way
RegistryIdle ==
    /\ modules = <<>>
    /\ listing = <<>>
    /\ entry = 1
    /\ plugins = {}
    /\ count = 0
    /\ load_pc = "idle"
    /\ module_name = <<>>
    /\ found = NoHarvest
    /\ plugins_before = {}
    /\ loaded = "none"
    /\ attempts = 0
    /\ successes = 0

\* the contexts handle_message is called with, messages of at most n segments
InitCtx(n) ==
    /\ message \in SeqsUpTo(SegPool, n)
    /\ message_type \in MessageTypes
    /\ to_me_defined \in BOOLEAN
    /\ to_me \in (IF to_me_defined THEN BOOLEAN ELSE {FALSE})
    /\ nickname \in NicknameConfigs
    /\ in_message = message
    /\ in_to_me = to_me
    /\ at_message = <<>>
    /\ raw_to_me = FALSE
    /\ pc = "idle"
    /\ preprocessors = {}
    /\ hook = <<>>
    /\ gather_exc = "none"
    /\ plugin_filtered = {}
    /\ handled = FALSE
    /\ cmd_returned = "none"
    /\ cmd_calls = 0
    /\ switches = 0
    /\ new_ctx_message = <<>>
    /\ nl_calls = 0
    /\ outcome = "running"
    /\ raised_by = "none"
    /\ RegistryIdle

\* ----------------------------------------------------------- normalization
\* handle_message: _log_message and the non-empty guarantee
HandleMessage ==
    /\ pc = "idle"
    /\ message' = IF message = <<>> THEN <<EmptyText>> ELSE message
    /\ pc' = "raw"
    /\ UNCHANGED <<to_me, to_me_defined, raw_to_me, at_message, envVars, pipeVars>>

\* raw_to_me = ctx.get('to_me', False)
SaveRawToMe ==
    /\ pc = "raw"
    /\ raw_to_me' = (to_me_defined /\ to_me)
    /\ at_message' = message
    /\ pc' = "at_me"
    /\ UNCHANGED <<ctxVars, envVars, pipeVars>>

\* _check_at_me without its private branch
CheckAtMeTypeNoPrivate ==
    /\ pc = "at_me"
    /\ to_me_defined' = TRUE
    /\ to_me' = FALSE
    /\ pc' = "at_first"
    /\ UNCHANGED <<message, raw_to_me, at_message, envVars, pipeVars>>

\* _check_at_me: the private branch, or the reset of the group/discuss branch
CheckAtMeType ==
    /\ pc = "at_me"
    /\ to_me_defined' = TRUE
    /\ IF message_type = "private"
       THEN to_me' = TRUE /\ pc' = "nickname"
       ELSE to_me' = FALSE /\ pc' = "at_first"
    /\ UNCHANGED <<message, raw_to_me, at_message, envVars, pipeVars>>

\* the first segment once the self-mention has been compared with it
FirstRemoved(msg) == Tail(msg)

\* _check_at_me: check the first segment
CheckFirstSegment ==
    /\ pc = "at_first"
    /\ IF message[1] = at_me_seg
       THEN to_me' = TRUE /\ message' = FirstRemoved(message)
       ELSE UNCHANGED <<to_me, message>>
    /\ pc' = "at_last"
    /\ UNCHANGED <<to_me_defined, raw_to_me, at_message, envVars, pipeVars>>

\* the tail rule without the step over a blank last text segment
LastIndexNoBlank(msg) == Len(msg)

\* the position (from the front) of the segment the tail rule compares
LastIndex(msg) ==
    IF msg[Len(msg)].type = "text" /\ IsBlank(msg[Len(msg)].data) /\ Len(msg) >= 2
    THEN Len(msg) - 1
    ELSE Len(msg)

\* del ctx['message'][-1:] whatever i is
LastRemovedLastOnly(msg) == SubSeq(msg, 1, Len(msg) - 1)

\* del ctx['message'][i:]
LastRemoved(msg) == SubSeq(msg, 1, LastIndex(msg) - 1)

\* the tail rule applied whatever the first rule did
TailRuleAlways(tm, msg) == msg # <<>> /\ msg[LastIndex(msg)] = at_me_seg

\* `if not ctx['to_me']` and `if last_msg_seg == at_me_seg`
TailRuleApplies(tm, msg) == ~tm /\ msg[LastIndex(msg)] = at_me_seg

\* _check_at_me: check the last segment
CheckLastSegment ==
    /\ pc = "at_last"
    /\ IF TailRuleApplies(to_me, message)
       THEN to_me' = TRUE /\ message' = LastRemoved(message)
       ELSE UNCHANGED <<to_me, message>>
    /\ pc' = "at_fill"
    /\ UNCHANGED <<to_me_defined, raw_to_me, at_message, envVars, pipeVars>>

\* _check_at_me without lines 111-112
CheckAtMeFillSkipped ==
    /\ pc = "at_fill"
    /\ pc' = "nickname"
    /\ UNCHANGED <<ctxVars, raw_to_me, at_message, envVars, pipeVars>>

\* _check_at_me: the closing non-empty guarantee
CheckAtMeFill ==
    /\ pc = "at_fill"
    /\ message' = IF message = <<>> THEN <<EmptyText>> ELSE message
    /\ pc' = "nickname"
    /\ UNCHANGED <<to_me, to_me_defined, raw_to_me, at_message, envVars, pipeVars>>

\* the message with the text of its first segment replaced
WithFirstText(msg, t) == [msg EXCEPT ![1] = Text(t)]

\* _check_calling_me_nickname
CheckCallingMeNickname ==
    /\ pc = "nickname"
    /\ LET first_text == message[1].data
           end == RegexEnd(nickname, first_text)
       IN  IF message[1].type = "text" /\ NicknameTruthy(nickname) /\ end >= 0
           THEN /\ to_me' = TRUE
                /\ message' = WithFirstText(message, Drop(first_text, end))
           ELSE UNCHANGED <<to_me, message>>
    /\ pc' = "merge"
    /\ UNCHANGED <<to_me_defined, raw_to_me, at_message, envVars, pipeVars>>

\* line 44 without its left operand
MergedToMeDropped(raw, cur) == cur

\* ctx['to_me'] = raw_to_me or ctx['to_me']
MergedToMe(raw, cur) == raw \/ cur

MergeToMe ==
    /\ pc = "merge"
    /\ to_me' = MergedToMe(raw_to_me, to_me)
    /\ pc' = "fanout"
    /\ UNCHANGED <<message, to_me_defined, raw_to_me, at_message, envVars, pipeVars>>

\* ------------------------------------------------------ preprocessor hooks
\* Hooks and dispatchers are external code: they are modelled by how they
\* end (what they return or raise), and as leaving ctx as they found it.
\* the functions a module may register with @message_preprocessor
Hooks == {"h1", "h2"}

\* a value a hook returns or yields: a Plugin instance or anything else
Object(isPlugin, id) == [plugin |-> isPlugin, id |-> id]

\* how a coroutine of coros stands: running, or ended by returning None
\* ("none"), one object ("object"), an Iterable of objects ("iterable"), by
\* raising CanceledException ("cancel") or another exception ("error")
HookState(kind, items) == [kind |-> kind, items |-> items]
Running == HookState("running", <<>>)

HookOutcomes ==
    { HookState("none", <<>>),
      HookState("object", <<Object(TRUE, "P1")>>),
      HookState("object", <<Object(FALSE, "x")>>),
      HookState("iterable", <<Object(TRUE, "P1"), Object(FALSE, "x"), Object(TRUE, "P2")>>),
      HookState("cancel", <<>>),
      HookState("error", <<>>) }

IsException(o) == o.kind \in {"cancel", "error"}

\* message_preprocessor(func), called while modules are loaded
MessagePreprocessor(func) ==
    /\ pc = "idle"
    /\ preprocessors' = preprocessors \cup {func}
    /\ UNCHANGED <<pc, ctxVars, message_type, nickname, in_message, in_to_me,
                   raw_to_me, at_message, pipeVars, regVars>>

\* handle_message: build coros and await asyncio.gather(*coros), or skip
\* the fan-out when no preprocessor is registered
StartGather ==
    /\ pc = "fanout"
    /\ plugin_filtered' = {}
    /\ IF preprocessors = {}
       THEN pc' = "command" /\ hook' = hook
       ELSE pc' = "gather" /\ hook' = [h \in preprocessors |-> Running]
    /\ UNCHANGED <<raised_by, ctxVars, envVars, raw_to_me, at_message, gather_exc,
                   cmdVars, nl_calls, outcome>>

\* gather keeping the last exception raised instead of the first
GatherExceptionLast(exc, o) == IF IsException(o) THEN o.kind ELSE exc

\* the exception gather propagates once the coroutine of a hook has ended
\* with o: the first one raised, later ones are dropped
GatherException(exc, o) ==
    IF exc = "none" /\ IsException(o) THEN o.kind ELSE exc

\* one coroutine of coros runs to its end; those still running when gather
\* has propagated an exception are not cancelled and end later
HookEnds(h, o) ==
    /\ h \in DOMAIN hook
    /\ hook[h] = Running
    /\ hook' = [hook EXCEPT ![h] = o]
    /\ gather_exc' = GatherException(gather_exc, o)
    /\ UNCHANGED <<raised_by, pc, ctxVars, envVars, raw_to_me, at_message,
                   plugin_filtered, cmdVars, nl_calls, outcome>>

\* lines 58-62 without the isinstance filter on the members
PluginsOfUnfiltered(result) ==
    CASE result.kind = "object" ->
            IF result.items[1].plugin THEN {result.items[1].id} ELSE {}
      [] result.kind = "iterable" ->
            {result.items[k].id : k \in 1..Len(result.items)}
      [] OTHER -> {}

\* the Plugins one result adds to plugin_filtered
PluginsOf(result) ==
    CASE result.kind = "object" ->
            IF result.items[1].plugin THEN {result.items[1].id} ELSE {}
      [] result.kind = "iterable" ->
            {result.items[k].id : k \in {j \in 1..Len(result.items) : result.items[j].plugin}}
      [] OTHER -> {}

\* plugin_filtered after the loop over results
CollectPlugins(results) == UNION {PluginsOf(results[h]) : h \in DOMAIN results}

\* handle_message resumes from gather with CanceledException: logs, returns
GatherCanceled ==
    /\ pc = "gather"
    /\ gather_exc = "cancel"
    /\ pc' = "done"
    /\ outcome' = "returned"
    /\ UNCHANGED <<raised_by, ctxVars, envVars, raw_to_me, at_message, fanVars,
                   cmdVars, nl_calls>>

\* handle_message resumes from gather with an exception it does not catch
GatherRaised ==
    /\ pc = "gather"
    /\ gather_exc = "error"
    /\ pc' = "done"
    /\ outcome' = "raised"
    /\ raised_by' = "hook"
    /\ UNCHANGED <<ctxVars, envVars, raw_to_me, at_message, fanVars,
                   cmdVars, nl_calls>>

\* gather handing over results while a coroutine is still running
GatherResultsEarly ==
    /\ pc = "gather"
    /\ gather_exc = "none"
    /\ plugin_filtered' = CollectPlugins(hook)
    /\ pc' = "command"
    /\ UNCHANGED <<raised_by, ctxVars, envVars, raw_to_me, at_message, hook,
                   gather_exc, cmdVars, nl_calls, outcome>>

\* handle_message resumes from gather with the results of all hooks
GatherResults ==
    /\ pc = "gather"
    /\ gather_exc = "none"
    /\ \A h \in DOMAIN hook : hook[h] # Running
    /\ plugin_filtered' = CollectPlugins(hook)
    /\ pc' = "command"
    /\ UNCHANGED <<raised_by, ctxVars, envVars, raw_to_me, at_message, hook, gather_exc,
                   cmdVars, nl_calls, outcome>>

\* ------------------------------------------------------- command dispatch
\* the messages a SwitchException carries
SwitchMessages == {<<>>, <<HiText>>}

Tick(n) == IF n < MaxCalls THEN n + 1 ELSE n

\* the except branch without line 71
SwitchedToMeKept(cur) == cur

\* ctx after `except SwitchException as e`
SwitchedMessage(e) == e
SwitchedToMe(cur) == TRUE

\* handle_command raises SwitchException(e): the loop goes round
HandleCommandSwitch(e) ==
    /\ pc = "command"
    /\ message' = SwitchedMessage(e)
    /\ to_me' = SwitchedToMe(to_me)
    /\ new_ctx_message' = e
    /\ cmd_calls' = Tick(cmd_calls)
    /\ switches' = Tick(switches)
    /\ UNCHANGED <<raised_by, pc, to_me_defined, envVars, raw_to_me, at_message, fanVars,
                   handled, cmd_returned, nl_calls, outcome>>

\* line 72-74 without the return
AfterCommandFallThrough(h) == "nl"

\* the loop without its break
AfterCommandNoBreak(h) == "command"

\* where handle_message goes once the loop has ended with handled = h
AfterCommand(h) == IF h THEN "done" ELSE "nl"

\* handle_command returns h: the loop breaks
HandleCommandReturn(h) ==
    /\ pc = "command"
    /\ handled' = h
    /\ cmd_returned' = IF h THEN "true" ELSE "false"
    /\ cmd_calls' = Tick(cmd_calls)
    /\ pc' = AfterCommand(h)
    /\ outcome' = IF pc' = "done" THEN "returned" ELSE outcome
    /\ UNCHANGED <<raised_by, ctxVars, envVars, raw_to_me, at_message, fanVars,
                   switches, new_ctx_message, nl_calls>>

\* handle_command raises an exception other than SwitchException
HandleCommandRaise ==
    /\ pc = "command"
    /\ cmd_calls' = Tick(cmd_calls)
    /\ pc' = "done"
    /\ outcome' = "raised"
    /\ raised_by' = "command"
    /\ UNCHANGED <<ctxVars, envVars, raw_to_me, at_message, fanVars,
                   handled, cmd_returned, switches, new_ctx_message, nl_calls>>

\* ------------------------------------------------ natural-language fallback
\* handle_natural_language returns h
HandleNaturalLanguageReturn(h) ==
    /\ pc = "nl"
    /\ handled' = h
    /\ nl_calls' = nl_calls + 1
    /\ pc' = "done"
    /\ outcome' = "returned"
    /\ UNCHANGED <<raised_by, ctxVars, envVars, raw_to_me, at_message, fanVars,
                   cmd_returned, cmd_calls, switches, new_ctx_message>>

\* handle_natural_language raises
HandleNaturalLanguageRaise ==
    /\ pc = "nl"
    /\ nl_calls' = nl_calls + 1
    /\ pc' = "done"
    /\ outcome' = "raised"
    /\ raised_by' = "nl"
    /\ UNCHANGED <<ctxVars, envVars, raw_to_me, at_message, fanVars,
                   cmdVars>>

\* ---------------------------------------------------- plugin registry: data
\* A name (of a directory entry, of a module, of a command) is a sequence of
\* one-character strings.  load_plugin is called with
\* f'{module_prefix}.{leaf}'; the prefix is the same for a whole batch, so a
\* module is known here by its leaf.
MaxEntries == 2

Range(s) == {s[i] : i \in DOMAIN s}

\* an attribute value of a module, by the isinstance tests that tell them apart
Attr(kind, val) == [kind |-> kind, val |-> val]

\* a member of a set exported by a module; printable is whether its repr
\* returns (Plugin.__repr__ formats self.module and self.name, which are
\* whatever the module that built the Plugin passed)
Member(isPlugin, id, printable) ==
    [plugin |-> isPlugin, id |-> id, printable |-> printable]

\* a module as import_module finds it: importable is whether its import
\* returns, attrs is the values of the names in dir(module), in that order
Module(importable, attrs) == [importable |-> importable, attrs |-> attrs]

M1 == <<"m", "1">>
M2 == <<"m", "2">>
Sub == <<"s">>
Deep == <<"d">>

\* a CommandFunc whose cmd.name is a list: commands.add raises TypeError
Unhashable == Attr("unhashable", <<>>)

DeepModules ==
    { Module(TRUE, << Attr("command", <<"c", "d">>), Attr("nlp", "nd"),
                     Attr("set", << Member(TRUE, "pd", TRUE) >>) >>),
      Module(TRUE, << Unhashable >>) }

SubModules ==
    { Module(TRUE, << Attr("command", <<"c", "s">>), Attr("module", Deep) >>),
      Module(TRUE, << Attr("module", Deep), Attr("nlp", "ns"),
                     Attr("set", << Member(TRUE, "ps", TRUE),
                                    Member(FALSE, "x", TRUE),
                                    Member(TRUE, "pu", FALSE) >>) >>),
      Module(TRUE, << Unhashable >>) }

TopModules ==
    { Module(TRUE, << Attr("command", <<"c", "1">>) >>),
      Module(TRUE, << Attr("command", <<"c", "1">>), Attr("module", Sub) >>),
      Module(TRUE, << Attr("module", Sub), Attr("nlp", "n1"),
                     Attr("other", <<>>),
                     Attr("set", << Member(TRUE, "p1", TRUE),
                                    Member(FALSE, "x", TRUE) >>) >>),
      Module(TRUE, << Attr("set", << Member(TRUE, "pu", FALSE) >>) >>),
      Module(TRUE, << Unhashable >>) }

OtherModules ==
    { Module(TRUE, << Attr("command", <<"c", "2">>) >>),
      Module(FALSE, <<>>) }

\* the module namespaces a run may start from
Worlds ==
    { (M1 :> t) @@ (M2 :> o) @@ (Sub :> s) @@ (Deep :> d) :
        t \in TopModules, o \in OtherModules, s \in SubModules,
        d \in DeepModules }

\* a directory entry: its name and what os.path says about it
Entry(name, isfile, isdir, init) ==
    [name |-> name, isfile |-> isfile, isdir |-> isdir, init |-> init]

EntryPool ==
    { Entry(<<"m", "1", ".", "p", "y">>, TRUE, FALSE, FALSE),
      Entry(<<"m", "2">>, FALSE, TRUE, TRUE),
      Entry(<<"_", "m", "2", ".", "p", "y">>, TRUE, FALSE, FALSE),
      Entry(<<"m", "2", ".", "t", "x", "t">>, TRUE, FALSE, FALSE),
      Entry(<<"m", "1">>, FALSE, TRUE, FALSE),
      Entry(<<"_", "m", "1">>, FALSE, TRUE, TRUE),
      Entry(<<"-", "m", "1", ".", "p", "y">>, TRUE, FALSE, FALSE),
      Entry(<<"x", ".", "p", "y">>, TRUE, FALSE, FALSE) }

\* a Plugin object; obj is its identity (Plugin defines no __eq__)
Plugin(obj, module, commands, nlprocessors, subplugins) ==
    [obj |-> obj, module |-> module, commands |-> commands,
     nlprocessors |-> nlprocessors, subplugins |-> subplugins]

\* a Plugin loaded before the batch
ExistingPlugin == Plugin(0, <<"m", "0">>, {}, {}, {})

\* the class [_A-Z0-9a-z]
IsWordChar(c) ==
    c \in {"_", "0", "1", "2", "3", "4", "5", "6", "7", "8", "9",
           "a", "b", "c", "d", "e", "f", "g", "h", "i", "j", "k", "l", "m",
           "n", "o", "p", "q", "r", "s", "t", "u", "v", "w", "x", "y", "z",
           "A", "B", "C", "D", "E", "F", "G", "H", "I", "J", "K", "L", "M",
           "N", "O", "P", "Q", "R", "S", "T", "U", "V", "W", "X", "Y", "Z"}

StartsWith(name, prefix) ==
    /\ Len(name) >= Len(prefix)
    /\ SubSeq(name, 1, Len(prefix)) = prefix

EndsWith(name, suffix) ==
    /\ Len(name) >= Len(suffix)
    /\ SubSeq(name, Len(name) - Len(suffix) + 1, Len(name)) = suffix

\* m.group(1) of re.match(r'([_A-Z0-9a-z]+)(.py)?', name): the longest
\* leading run of word characters; the empty sequence stands for no match
RECURSIVE Leaf(_)
Leaf(name) ==
    IF name # <<>> /\ IsWordChar(Head(name))
    THEN <<Head(name)>> \o Leaf(Tail(name))
    ELSE <<>>

\* the two continue tests of load_plugins on a directory entry
Skipped(e) ==
    \/ e.isfile /\ (StartsWith(e.name, <<"_">>)
                     \/ ~EndsWith(e.name, <<".", "p", "y">>))
    \/ e.isdir /\ (StartsWith(e.name, <<"_">>) \/ ~e.init)

\* the entry reaches the load_plugin call
Attempted(e) == ~Skipped(e) /\ Leaf(e.name) # <<>>

\* get_cmd_nlp_subplugins with every nested module descended into
RECURSIVE GetCmdNlpSubpluginsDeep(_, _)
GetCmdNlpSubpluginsDeep(_module, depth) ==
    LET attrs == modules[_module].attrs
        Visit(func) ==
            IF depth /\ func.kind = "module"
            THEN GetCmdNlpSubpluginsDeep(func.val, TRUE)
            ELSE IF func.kind = "command"
            THEN Harvest(FALSE, {func.val}, {}, {})
            ELSE IF func.kind = "unhashable"
            THEN Harvest(TRUE, {}, {}, {})
            ELSE IF func.kind = "nlp"
            THEN Harvest(FALSE, {}, {func.val}, {})
            ELSE IF func.kind = "set"
            THEN Harvest(FALSE, {}, {},
                         {x \in Range(func.val) : x.plugin})
            ELSE NoHarvest
        parts == {Visit(attrs[i]) : i \in DOMAIN attrs}
    IN  Harvest(\E part \in parts : part.raised,
                UNION {part.commands : part \in parts},
                UNION {part.nlprocessors : part \in parts},
                UNION {part.subplugins : part \in parts})

\* get_cmd_nlp_subplugins: one pass over dir(_module); a nested module is
\* descended into with depth False, where its own nested modules match none
\* of the isinstance tests; raised is an exception leaving the call
RECURSIVE GetCmdNlpSubplugins(_, _)
GetCmdNlpSubplugins(_module, depth) ==
    LET attrs == modules[_module].attrs
        Visit(func) ==
            IF depth /\ func.kind = "module"
            THEN GetCmdNlpSubplugins(func.val, FALSE)
            ELSE IF func.kind = "command"
            THEN Harvest(FALSE, {func.val}, {}, {})
            ELSE IF func.kind = "unhashable"
            THEN Harvest(TRUE, {}, {}, {})
            ELSE IF func.kind = "nlp"
            THEN Harvest(FALSE, {}, {func.val}, {})
            ELSE IF func.kind = "set"
            THEN Harvest(FALSE, {}, {},
                         {x \in Range(func.val) : x.plugin})
            ELSE NoHarvest
        parts == {Visit(attrs[i]) : i \in DOMAIN attrs}
    IN  Harvest(\E part \in parts : part.raised,
                UNION {part.commands : part \in parts},
                UNION {part.nlprocessors : part \in parts},
                UNION {part.subplugins : part \in parts})

\* ------------------------------------------------- plugin registry: actions
regFrame == <<preprocessors, pc, ctxVars, message_type, nickname, in_message,
              in_to_me, raw_to_me, at_message, pipeVars, modules, listing>>

\* load_plugins is called: count = 0 and the for loop starts
LoadPlugins ==
    /\ load_pc = "idle"
    /\ count' = 0
    /\ entry' = 1
    /\ load_pc' = "loop"
    /\ UNCHANGED <<regFrame, plugins, module_name, found, plugins_before,
                   loaded, attempts, successes>>

\* one of the three continue statements
SkipEntry ==
    /\ load_pc = "loop"
    /\ entry <= Len(listing)
    /\ ~Attempted(listing[entry])
    /\ entry' = entry + 1
    /\ UNCHANGED <<regFrame, plugins, count, load_pc, module_name, found,
                   plugins_before, loaded, attempts, successes>>

\* load_plugin is called on the leaf of the entry
LoadPlugin ==
    /\ load_pc = "loop"
    /\ entry <= Len(listing)
    /\ Attempted(listing[entry])
    /\ module_name' = Leaf(listing[entry].name)
    /\ entry' = entry + 1
    /\ plugins_before' = plugins
    /\ attempts' = attempts + 1
    /\ load_pc' = "import"
    /\ UNCHANGED <<regFrame, plugins, count, found, loaded, successes>>

\* importlib.import_module returns the module or raises
ImportModule ==
    /\ load_pc = "import"
    /\ load_pc' = IF module_name \in DOMAIN modules
                     /\ modules[module_name].importable
                  THEN "introspect"
                  ELSE "except"
    /\ UNCHANGED <<regFrame, entry, plugins, count, module_name, found,
                   plugins_before, loaded, attempts, successes>>

\* get_cmd_nlp_subplugins(module), then _plugins.add(Plugin(...))
AddPlugin ==
    /\ load_pc = "introspect"
    /\ LET result == GetCmdNlpSubplugins(module_name, TRUE)
       IN  IF result.raised
           THEN /\ load_pc' = "except"
                /\ UNCHANGED <<plugins, found>>
           ELSE /\ found' = result
                /\ plugins' = plugins \cup
                      {Plugin(Cardinality(plugins) + 1, module_name,
                              result.commands, result.nlprocessors,
                              result.subplugins)}
                /\ load_pc' = "log"
    /\ UNCHANGED <<regFrame, entry, count, module_name, plugins_before,
                   loaded, attempts, successes>>

\* the f-string handed to logger.debug formats the three sets; the repr of a
\* member may raise, inside the try
LogLoaded ==
    /\ load_pc = "log"
    /\ load_pc' = IF \A x \in found.subplugins : x.printable
                  THEN "return_true"
                  ELSE "except"
    /\ UNCHANGED <<regFrame, entry, plugins, count, module_name, found,
                   plugins_before, loaded, attempts, successes>>

\* except Exception: log and return False; load_plugins goes to the next entry
LoadPluginFailed ==
    /\ load_pc = "except"
    /\ loaded' = "false"
    /\ load_pc' = "loop"
    /\ UNCHANGED <<regFrame, entry, plugins, count, module_name, found,
                   plugins_before, attempts, successes>>

\* return True; load_plugins counts it
LoadPluginSucceeded ==
    /\ load_pc = "return_true"
    /\ loaded' = "true"
    /\ successes' = successes + 1
    /\ count' = count + 1
    /\ load_pc' = "loop"
    /\ UNCHANGED <<regFrame, entry, plugins, module_name, found,
                   plugins_before, attempts>>

\* the for loop is exhausted: return count
LoadPluginsReturn ==
    /\ load_pc = "loop"
    /\ entry > Len(listing)
    /\ load_pc' = "done"
    /\ UNCHANGED <<regFrame, entry, plugins, count, module_name, found,
                   plugins_before, loaded, attempts, successes>>

\* ---------------------------------------------------------- specifications
NextNorm ==
    \/ HandleMessage
    \/ SaveRawToMe
    \/ CheckAtMeType
    \/ CheckFirstSegment
    \/ CheckLastSegment
    \/ CheckAtMeFill
    \/ CheckCallingMeNickname
    \/ MergeToMe

InitNorm == InitCtx(MaxLen)

\* handle_message up to the end of normalization, on every bounded input
NormSpec == InitNorm /\ [][NextNorm]_vars

Init == InitCtx(PipeMaxLen)

Next ==
    \/ \E func \in Hooks : MessagePreprocessor(func)
    \/ NextNorm
    \/ StartGather
    \/ \E h \in Hooks, o \in HookOutcomes : HookEnds(h, o)
    \/ GatherCanceled
    \/ GatherRaised
    \/ GatherResults
    \/ \E e \in SwitchMessages : HandleCommandSwitch(e)
    \/ \E h \in BOOLEAN : HandleCommandReturn(h)
    \/ HandleCommandRaise
    \/ \E h \in BOOLEAN : HandleNaturalLanguageReturn(h)
    \/ HandleNaturalLanguageRaise

\* one handle_message run from registration to its end
Spec == Init /\ [][Next]_vars

\* the event loop keeps running whatever can run
LiveSpec == Init /\ [][Next]_vars /\ WF_vars(Next)

\* no message is being handled
PipelineIdle ==
    /\ message = <<HiText>>
    /\ message_type = "private"
    /\ to_me_defined = FALSE
    /\ to_me = FALSE
    /\ nickname = Nick(TRUE, << <<>> >>)
    /\ in_message = message
    /\ in_to_me = to_me
    /\ at_message = <<>>
    /\ raw_to_me = FALSE
    /\ pc = "idle"
    /\ preprocessors = {}
    /\ hook = <<>>
    /\ gather_exc = "none"
    /\ plugin_filtered = {}
    /\ handled = FALSE
    /\ cmd_returned = "none"
    /\ cmd_calls = 0
    /\ switches = 0
    /\ new_ctx_message = <<>>
    /\ nl_calls = 0
    /\ outcome = "running"
    /\ raised_by = "none"

InitPlugin ==
    /\ PipelineIdle
    /\ modules \in Worlds
    /\ listing \in SeqsUpTo(EntryPool, MaxEntries)
    /\ entry = 1
    /\ plugins \in {{}, {ExistingPlugin}}
    /\ count = 0
    /\ load_pc = "idle"
    /\ module_name = <<>>
    /\ found = NoHarvest
    /\ plugins_before = {}
    /\ loaded = "none"
    /\ attempts = 0
    /\ successes = 0

NextPlugin ==
    \/ LoadPlugins
    \/ SkipEntry
    \/ LoadPlugin
    \/ ImportModule
    \/ AddPlugin
    \/ LogLoaded
    \/ LoadPluginFailed
    \/ LoadPluginSucceeded
    \/ LoadPluginsReturn

\* one load_plugins call on every bounded directory and module namespace
PluginSpec == InitPlugin /\ [][NextPlugin]_vars

\* ------------------------------------------------------------------ claims
\* normalization (lines 38-44) has completed
Normalized == pc \in {"fanout", "gather", "command", "nl", "done"}

\* _check_at_me has returned and nothing has run since
AfterCheckAtMe == pc = "nickname"

Raised(kind) == \E h \in DOMAIN hook : hook[h].kind = kind

NoDispatch == cmd_calls = 0 /\ nl_calls = 0

\* C1 as stated: once handle_message has ended and a hook has raised
\* CanceledException, handle_message has returned normally and neither
\* dispatcher was invoked, whatever the other hooks did.
C1_CancelAlwaysReturns ==
    (pc = "done" /\ Raised("cancel")) => (outcome = "returned" /\ NoDispatch)

\* C1 amended: when the first exception raised in the fan-out is
\* CanceledException, handle_message returns normally without invoking a
\* dispatcher; when it is another exception, that exception leaves
\* handle_message; and whenever any hook raised CanceledException no
\* dispatcher was invoked.
C1_FirstExceptionDecides ==
    /\ (pc = "done" /\ gather_exc = "cancel") => (outcome = "returned" /\ NoDispatch)
    /\ (pc = "done" /\ gather_exc = "error") => (outcome = "raised" /\ NoDispatch)
    /\ Raised("cancel") => NoDispatch

C1_Witness ==
    /\ pc = "done"
    /\ outcome = "returned"
    /\ gather_exc = "cancel"
    /\ Raised("cancel")
    /\ Raised("error")

\* C2: handle_natural_language is invoked at most once, only after
\* handle_command has returned handled = False, and never when handle_command
\* returned handled = True.
C2_CommandPrecedesNL ==
    /\ nl_calls <= 1
    /\ (pc = "nl" \/ nl_calls = 1) => cmd_returned = "false"
    /\ pc = "nl" => nl_calls = 0
    /\ cmd_returned = "true" => (nl_calls = 0 /\ pc = "done" /\ outcome = "returned")

C2_Witness ==
    /\ nl_calls = 1
    /\ cmd_returned = "false"
    /\ switches = 1
    /\ handled

\* C3: after k SwitchExceptions and a return, handle_command has been invoked
\* k + 1 times; at every re-invocation, and from then on, ctx.message is the
\* message of the last SwitchException and ctx.to_me is true; the loop ends
\* with the value the last invocation returned.
C3_SwitchLoop ==
    /\ (switches > 0 /\ pc \in {"command", "nl", "done"}) =>
            (message = new_ctx_message /\ to_me)
    /\ (cmd_returned # "none" /\ cmd_calls < MaxCalls) => cmd_calls = switches + 1
    /\ (cmd_returned = "none" /\ pc = "command" /\ cmd_calls < MaxCalls) =>
            cmd_calls = switches
    /\ (cmd_returned # "none" /\ nl_calls = 0) => handled = (cmd_returned = "true")
    /\ (switches = 1 /\ cmd_returned = "true") =>
            (cmd_calls = 2 /\ handled /\ pc = "done" /\ outcome = "returned")

C3_Witness ==
    /\ switches = 1
    /\ cmd_returned = "true"
    /\ cmd_calls = 2
    /\ message = <<HiText>>
    /\ in_message # <<HiText>>
    /\ message_type = "group"
    /\ ~in_to_me
    /\ to_me

\* handle_command raises SwitchException and the loop goes round
SwitchStep == \E e \in SwitchMessages : HandleCommandSwitch(e)

\* C4 as stated: whatever handle_command does, handle_message leaves the
\* loop and ends.
C4_AlwaysTerminates == <>(pc = "done")

\* C4 amended: handle_message leaves the loop and ends provided
\* handle_command raises SwitchException only finitely many times.
C4_TerminatesIfSwitchesStop == (<>[][~SwitchStep]_vars) => <>(pc = "done")

C4_Witness ==
    /\ pc = "done"
    /\ switches >= 2
    /\ cmd_returned # "none"

\* C5: after each normalization phase ctx.message has at least one segment,
\* and ctx.to_me is defined once addressing detection has run.
C5_NonEmpty ==
    /\ pc \in {"raw", "at_me", "at_first", "nickname", "merge", "fanout"} =>
            Len(message) >= 1
    /\ pc \in {"nickname", "merge", "fanout"} => to_me_defined

C5_Witness ==
    /\ pc = "fanout"
    /\ in_message = <<At(SelfId), BlankText>>
    /\ message_type = "group"
    /\ message = <<EmptyText>>

\* C6: a to_me that is true when handle_message is called is true after
\* normalization, for every message type and content.
C6_NeverDowngraded == (pc = "fanout" /\ in_to_me) => to_me

C6_Witness ==
    /\ pc = "fanout"
    /\ in_to_me
    /\ to_me
    /\ message_type = "discuss"
    /\ in_message = <<At(OtherId), HiText>>
    /\ nickname = Nick(TRUE, << <<>> >>)

\* C7 as stated: no step of handle_message changes ctx.to_me from true to
\* false.
C7_Monotone == [][(to_me_defined /\ to_me) => to_me']_vars

\* C7 amended: the only step that changes ctx.to_me from true to false is
\* the reset at the start of _check_at_me for a group or discuss message;
\* line 44 restores a true input value, and no later step of handle_message
\* changes ctx.to_me from true to false.
C7_OnlyTransientReset ==
    /\ [][(to_me_defined /\ to_me /\ ~to_me') =>
            (pc = "at_me" /\ message_type # "private")]_vars
    /\ [](Normalized /\ in_to_me => to_me)

C7_Witness ==
    /\ pc = "at_first"
    /\ in_to_me
    /\ ~to_me

\* C8: for a private message _check_at_me sets to_me and removes no segment,
\* and to_me is true after normalization whatever the content, the input
\* to_me and the nickname configuration are.
C8_PrivateAddressed ==
    message_type = "private" =>
        /\ AfterCheckAtMe => (to_me /\ message = at_message)
        /\ pc = "fanout" => (to_me /\ Len(message) = Len(at_message))

C8_Witness ==
    /\ message_type = "private"
    /\ pc = "fanout"
    /\ in_message = <<At(SelfId), HiText, At(SelfId)>>
    /\ ~in_to_me
    /\ nickname = Nick(TRUE, << <<>> >>)
    /\ to_me

\* C9: for a group or discuss message that starts with the self-mention,
\* _check_at_me sets to_me and removes exactly the first segment, the rest
\* staying as it was (a trailing self-mention included); a message emptied
\* this way becomes one empty text segment.
C9_FirstAtMe ==
    (message_type # "private" /\ AfterCheckAtMe /\ at_message[1] = at_me_seg) =>
        /\ to_me
        /\ message = IF Tail(at_message) = <<>> THEN <<EmptyText>> ELSE Tail(at_message)

C9_Witness ==
    /\ message_type = "group"
    /\ AfterCheckAtMe
    /\ at_message = <<At(SelfId), HiText, At(SelfId)>>
    /\ message = <<HiText, At(SelfId)>>
    /\ to_me

HiBlankAt == <<HiText, BlankText, At(SelfId)>>
HiAtBlank == <<HiText, At(SelfId), BlankText>>

\* C10 as stated: the group message [text("hi"), text("  "), at(self_id)]
\* is normalized to to_me = true, message = [text("hi")].
C10_BlankThenAt ==
    (message_type = "group" /\ pc = "fanout" /\ in_message = HiBlankAt) =>
        (to_me /\ message = <<HiText>>)

\* C10 amended: for the group message [text("hi"), text("  "), at(self_id)]
\* _check_at_me sets to_me and removes the trailing self-mention alone,
\* leaving [text("hi"), text("  ")], and the blank segment is still the
\* second of two segments after normalization; it is the message
\* [text("hi"), at(self_id), text("  ")] that _check_at_me turns into
\* [text("hi")].
C10_AtThenBlank ==
    message_type = "group" =>
        /\ (AfterCheckAtMe /\ at_message = HiBlankAt) =>
                (to_me /\ message = <<HiText, BlankText>>)
        /\ (pc = "fanout" /\ in_message = HiBlankAt) =>
                (to_me /\ Len(message) = 2 /\ message[2] = BlankText)
        /\ (AfterCheckAtMe /\ at_message = HiAtBlank) =>
                (to_me /\ message = <<HiText>>)

C10_Witness ==
    /\ message_type = "group"
    /\ pc = "fanout"
    /\ in_message = HiBlankAt
    /\ message = <<HiText, BlankText>>
    /\ ~in_to_me
    /\ to_me

\* the configured nicknames that are not blank
NonBlankNicknames ==
    {nickname.names[k] : k \in {j \in 1..Len(nickname.names) : nickname.names[j] # <<>>}}

\* t without its leading run of separators
RECURSIVE StripSeparators(_)
StripSeparators(t) ==
    IF t # <<>> /\ IsSeparator(Head(t)) THEN StripSeparators(Tail(t)) ELSE t

\* C11: when the first segment is a text that starts, ignoring case, with a
\* configured non-blank nickname, _check_calling_me_nickname sets to_me and
\* replaces the text by what follows such a nickname and the separators
\* after it, keeping the number of segments and every other segment, also
\* when nothing remains; when the first segment is not text it changes
\* neither the message nor to_me.  With nickname "Bot", [text("BOT, hi")]
\* becomes [text("hi")].
C11_NicknameStripped ==
    [][pc = "nickname" =>
        LET first == message[1]
            called == {n \in NonBlankNicknames : IsPrefixNoCase(n, first.data)}
        IN  /\ (first.type = "text" /\ called # {}) =>
                /\ to_me'
                /\ Len(message') = Len(message)
                /\ \A k \in 2..Len(message) : message'[k] = message[k]
                /\ message'[1].type = "text"
                /\ \E n \in called :
                        message'[1].data = StripSeparators(Drop(first.data, Len(n)))
            /\ first.type # "text" => (message' = message /\ to_me' = to_me)
            /\ (message = <<CallText>> /\ nickname = Nick(TRUE, << <<"B", "o", "t">> >>)) =>
                (message' = <<HiText>> /\ to_me')
            /\ (first = HiText /\ nickname = Nick(FALSE, << <<"h", "i">> >>)) =>
                (message'[1] = EmptyText /\ to_me')]_vars

C11_Witness ==
    /\ pc = "merge"
    /\ message_type = "group"
    /\ ~in_to_me
    /\ in_message = <<CallText, At(OtherId)>>
    /\ nickname = Nick(FALSE, << <<>>, <<"h">>, <<"b", "o", "t">> >>)
    /\ message = <<HiText, At(OtherId)>>
    /\ to_me

\* every object a hook returned, alone or as a member of an Iterable
ReturnedObjects ==
    UNION {{hook[h].items[k] : k \in 1..Len(hook[h].items)} :
                h \in {g \in DOMAIN hook : hook[g].kind \in {"object", "iterable"}}}

\* the dispatchers are being, or have been, called with plugin_filtered
Dispatching == pc \in {"command", "nl"} \/ cmd_calls > 0 \/ nl_calls > 0

\* C12: when no hook cancels, both dispatchers are called with the same
\* plugin_filtered, which holds exactly the Plugin instances among the
\* objects the hooks returned, alone or inside an Iterable, each once; it is
\* empty when no hook is registered.
C12_PluginFilter ==
    /\ [](Dispatching =>
            plugin_filtered = {o.id : o \in {x \in ReturnedObjects : x.plugin}})
    /\ []((Dispatching /\ preprocessors = {}) => plugin_filtered = {})
    /\ [][Dispatching => plugin_filtered' = plugin_filtered]_vars

C12_Witness ==
    /\ pc = "nl"
    /\ preprocessors = {"h1", "h2"}
    /\ hook["h1"].kind = "iterable"
    /\ hook["h2"] = HookState("object", <<Object(TRUE, "P1")>>)
    /\ plugin_filtered = {"P1", "P2"}

\* C16 as stated: ctx.message has at least one segment whenever
\* handle_command or handle_natural_language is about to be invoked, also
\* after a SwitchException has replaced it.
C16_NonEmptyAtDispatch == pc \in {"command", "nl"} => message # <<>>

\* the segment the tail rule compares in the message _check_at_me received
Candidate ==
    LET n == Len(at_message)
        last == at_message[n]
    IN  IF last.type = "text" /\ (\A k \in 1..Len(last.data) : last.data[k] = " ") /\ n >= 2
        THEN n - 1
        ELSE n

\* C17: for a group or discuss message that does not start with the
\* self-mention, the candidate is the segment before a whitespace-only last
\* text segment of a message of two or more segments, else the last
\* segment; when the candidate is the self-mention, _check_at_me sets to_me
\* and removes the candidate and all that follows it; when it is not,
\* _check_at_me leaves the message as it was and to_me false.
C17_TailRule ==
    (message_type # "private" /\ AfterCheckAtMe /\ at_message[1] # at_me_seg) =>
        IF at_message[Candidate] = at_me_seg
        THEN /\ to_me
             /\ message = IF Candidate = 1 THEN <<EmptyText>>
                          ELSE SubSeq(at_message, 1, Candidate - 1)
        ELSE /\ ~to_me
             /\ message = at_message

C17_Witness ==
    /\ message_type = "discuss"
    /\ AfterCheckAtMe
    /\ at_message = <<HiText, At(SelfId), BlankText>>
    /\ message = <<HiText>>
    /\ to_me

\* C18 as stated: an exception other than CanceledException raised by a
\* hook, an exception other than SwitchException raised by handle_command,
\* and any exception raised by handle_natural_language leaves
\* handle_message, and no later phase runs.
C18_NothingSuppressed ==
    /\ (pc = "done" /\ Raised("error")) => (outcome = "raised" /\ NoDispatch)
    /\ raised_by = "command" => (pc = "done" /\ outcome = "raised" /\ nl_calls = 0)
    /\ raised_by = "nl" => (pc = "done" /\ outcome = "raised")

\* C18 amended: the first exception raised in the fan-out, when it is not
\* CanceledException, leaves handle_message and no dispatcher runs; an
\* exception a hook raises after another hook has raised is dropped, and no
\* dispatcher runs then either; an exception of handle_command other than
\* SwitchException leaves handle_message and handle_natural_language does
\* not run; an exception of handle_natural_language leaves handle_message.
C18_FirstExceptionPropagates ==
    /\ (pc = "done" /\ gather_exc = "error") =>
            (outcome = "raised" /\ raised_by = "hook" /\ NoDispatch)
    /\ Raised("error") => NoDispatch
    /\ raised_by = "command" => (pc = "done" /\ outcome = "raised" /\ nl_calls = 0)
    /\ raised_by = "nl" => (pc = "done" /\ outcome = "raised")
    /\ outcome = "raised" => pc = "done"

C18_Witness ==
    /\ pc = "done"
    /\ outcome = "raised"
    /\ raised_by = "hook"
    /\ gather_exc = "error"
    /\ DOMAIN hook = Hooks
    /\ hook["h1"].kind = "error"
    /\ hook["h2"].kind = "iterable"

SomeHookRunning == \E h \in DOMAIN hook : hook[h] = Running

\* C19: no hook is invoked before normalization has completed; from the
\* fan-out on there is one coroutine per registered hook, which ends once;
\* while a hook has not completed it sees the normalized ctx (a non-empty
\* message, to_me defined, nothing changing them) and no dispatcher has been
\* or is being invoked.
C19_Barriers ==
    /\ [](pc \notin {"gather", "command", "nl", "done"} => DOMAIN hook = {})
    /\ [](pc \in {"gather", "command", "nl", "done"} => DOMAIN hook = preprocessors)
    /\ [](SomeHookRunning =>
            /\ pc \in {"gather", "done"}
            /\ NoDispatch
            /\ message # <<>>
            /\ to_me_defined
            /\ (in_to_me => to_me))
    /\ [][SomeHookRunning => UNCHANGED ctxVars]_vars
    /\ [][\A h \in DOMAIN hook :
            hook[h] # Running => (h \in DOMAIN hook' /\ hook'[h] = hook[h])]_vars

\* the second hook has completed before the first
C19_Witness ==
    /\ pc = "gather"
    /\ DOMAIN hook = Hooks
    /\ hook["h1"] = Running
    /\ hook["h2"].kind = "object"
    /\ in_message = <<>>
    /\ message = <<EmptyText>>
    /\ to_me

\* C20 as stated: with only blank entries in the nickname collection, a
\* group message without a self-mention and without a true input to_me
\* leaves normalization with to_me false and its first text unchanged.
C20_BlankNicknamesNeverMatch ==
    (/\ pc = "fanout"
     /\ nickname = Nick(FALSE, << <<>> >>)
     /\ message_type = "group"
     /\ ~in_to_me
     /\ in_message # <<>>
     /\ \A k \in 1..Len(in_message) : in_message[k] # at_me_seg)
        => (~to_me /\ message = in_message)

\* the Plugins the batch added to the registry
AddedByBatch == plugins \ {ExistingPlugin}

\* C13: when a load_plugins call has returned, every entry that passes the
\* eligibility and naming tests was handed to load_plugin, the count returned
\* is the number of load_plugin calls that returned True, and that number is
\* the number of Plugins the batch added to _plugins.
C13_BatchCount ==
    load_pc = "done" =>
        /\ attempts = Cardinality({i \in DOMAIN listing : Attempted(listing[i])})
        /\ count = successes
        /\ successes = Cardinality(AddedByBatch)

\* a load_plugin call has returned and no other has started
Returned(result) == load_pc \in {"loop", "done"} /\ loaded = result

\* C14: after load_plugin returned False, _plugins is what it was when the
\* call was made; after it returned True, _plugins is what it was plus exactly
\* one new Plugin, of the module that was loaded.
C14_AllOrNothing ==
    /\ Returned("false") => plugins = plugins_before
    /\ Returned("true") =>
           \E p \in plugins \ plugins_before :
               /\ p.module = module_name
               /\ plugins = plugins_before \cup {p}

\* the values of one kind among the attributes of module m
OwnOf(m, kind) == {a.val : a \in {x \in Range(modules[m].attrs) : x.kind = kind}}

\* the module itself and the modules that are attributes of it
OneLevel(m) == {m} \cup OwnOf(m, "module")

\* C15: every Plugin that load_plugin built holds exactly the command names,
\* the NL processors and the Plugin members of exported sets of its module
\* and of the modules that are direct attributes of that module; what only a
\* nested module of a nested module exports is not in it.
C15_OneLevelDeep ==
    \A p \in AddedByBatch :
        /\ p.commands = UNION {OwnOf(m, "command") : m \in OneLevel(p.module)}
        /\ p.nlprocessors = UNION {OwnOf(m, "nlp") : m \in OneLevel(p.module)}
        /\ p.subplugins =
               UNION {{x \in Range(members) : x.plugin} :
                      members \in UNION {OwnOf(m, "set") : m \in OneLevel(p.module)}}

\* a Plugin of m1 that holds a command of its nested module s and not the
\* command that only d, nested in s, exports
C15_Witness ==
    \E p \in AddedByBatch :
        /\ p.module = M1
        /\ Sub \in OwnOf(M1, "module")
        /\ Deep \in OwnOf(Sub, "module")
        /\ <<"c", "s">> \in p.commands
        /\ <<"c", "d">> \in OwnOf(Deep, "command")
        /\ <<"c", "d">> \notin p.commands
====
